---------------------------- MODULE Spec2Model ----------------------------
(***************************************************************************)
(* A model of two parts of the plonky2 gadget/gate layer:                  *)
(*   - the BigUint gadget   (src/src/gadgets/biguint.rs)                   *)
(*   - the InsertionGate    (src/src/gates/insertion.rs)                   *)
(* BigUint operations are modelled on the values their targets carry;      *)
(* a Rust panic (index out of bounds, failed debug_assert!) is the result  *)
(* status "panic".  Limbs are LimbBits wide instead of 32 bits wide so     *)
(* that the arithmetic stays inside the model checker's integers; every    *)
(* carry / borrow / high-product path of the 32-bit code is kept.          *)
(***************************************************************************)
EXTENDS Integers, Sequences, FiniteSets

VARIABLES debug_assertions, op, a, b, fresh, result, generator,
          vec_size, D, row, evaluation, witness

state == <<debug_assertions, op, a, b, fresh, result, generator,
           vec_size, D, row, evaluation, witness>>

biguint_state == <<debug_assertions, a, b, fresh, result, generator>>
gate_state    == <<vec_size, D, row, evaluation, witness>>

-----------------------------------------------------------------------------
(* Bounds of the model.                                                    *)

\* width of one limb in bits (the code's limbs are 32 bits wide)
LimbBits == 2
\* largest number of limbs of an operand
MaxLimbs == 2
\* largest list length of an InsertionGate
MaxVecSize == 2
\* largest extension degree
MaxD == 2
\* largest value of a list element / inserted element / equality dummy
MaxElem == 2

Base == 2 ^ LimbBits

\* limb values the operands are drawn from: both ends of the limb range
LimbValues == {0, 1, Base - 2, Base - 1}

Min(x, y) == IF x < y THEN x ELSE y
Max(x, y) == IF x < y THEN y ELSE x

\* all sequences over S of length 0..n
SeqsUpTo(S, n) == UNION {[1..k -> S] : k \in 0..n}

-----------------------------------------------------------------------------
(* Rust Vec primitives.                                                    *)

Ok(v)  == [status |-> "ok", val |-> v]
Panic  == [status |-> "panic", val |-> <<>>]

\* vec[i] = x  (IndexMut: panics when i >= vec.len())
VecSet(vec, i, x) ==
    IF i < Len(vec) THEN Ok([vec EXCEPT ![i + 1] = x]) ELSE Panic

-----------------------------------------------------------------------------
(* The 32-bit arithmetic library and the witness accessors the gadget      *)
(* calls (not part of the two source files).                               *)

\* value denoted by a limb sequence, least significant limb first
RECURSIVE Decode(_)
Decode(limbs) ==
    IF limbs = <<>> THEN 0 ELSE Head(limbs) + Base * Decode(Tail(limbs))

\* set_biguint_target: the low n limbs of value v, least significant first
RECURSIVE Encode(_, _)
Encode(v, n) ==
    IF n = 0 THEN <<>> ELSE <<v % Base>> \o Encode(v \div Base, n - 1)

RECURSIVE SumSeq(_)
SumSeq(s) == IF s = <<>> THEN 0 ELSE Head(s) + SumSeq(Tail(s))

\* (low limb, carry) of x + y + z
add_three_u32(x, y, z) == <<(x + y + z) % Base, (x + y + z) \div Base>>
\* (low limb, carry) of the sum of all operands
add_many_u32(xs) == <<SumSeq(xs) % Base, SumSeq(xs) \div Base>>
\* (low limb, high limb) of x * y
mul_u32(x, y) == <<(x * y) % Base, (x * y) \div Base>>
\* (difference limb, borrow out) of x - y - borrow
sub_u32(x, y, borrow) ==
    IF x - y - borrow < 0 THEN <<x - y - borrow + Base, 1>>
                          ELSE <<x - y - borrow, 0>>

\* limb-list comparator, most significant limb first: TRUE iff xs <= ys
RECURSIVE list_le(_, _)
list_le(xs, ys) ==
    IF xs = <<>> THEN TRUE
    ELSE LET n == Len(xs) IN
         IF xs[n] < ys[n] THEN TRUE
         ELSE IF xs[n] > ys[n] THEN FALSE
         ELSE list_le(SubSeq(xs, 1, n - 1), SubSeq(ys, 1, n - 1))

\* the constraints the builder emits
ConnectU32(x, y) == [kind |-> "connect", x |-> x, y |-> y]
AssertZeroU32(x) == [kind |-> "assert_zero", x |-> x, y |-> 0]
AssertOne(x)     == [kind |-> "assert_one", x |-> x, y |-> 1]

Holds(c) == c.x = c.y
Satisfied(cs) == \A i \in 1..Len(cs) : Holds(cs[i])

-----------------------------------------------------------------------------
(* BigUintTarget                                                           *)

num_limbs(x) == Len(x)
get_limb(x, i) == x[i + 1]

\* connect_biguint with the assertion on rhs's excess limbs left out
connect_biguint_no_rhs_excess(lhs, rhs) ==
    LET min_limbs == Min(num_limbs(lhs), num_limbs(rhs)) IN
       [i \in 1..min_limbs |-> ConnectU32(get_limb(lhs, i - 1), get_limb(rhs, i - 1))]
    \o [i \in 1..(num_limbs(lhs) - min_limbs) |->
            AssertZeroU32(get_limb(lhs, min_limbs + i - 1))]

connect_biguint(lhs, rhs) ==
    LET min_limbs == Min(num_limbs(lhs), num_limbs(rhs)) IN
       [i \in 1..min_limbs |-> ConnectU32(get_limb(lhs, i - 1), get_limb(rhs, i - 1))]
    \o [i \in 1..(num_limbs(lhs) - min_limbs) |->
            AssertZeroU32(get_limb(lhs, min_limbs + i - 1))]
    \o [i \in 1..(num_limbs(rhs) - min_limbs) |->
            AssertZeroU32(get_limb(rhs, min_limbs + i - 1))]

\* virt: the values the fresh virtual targets end up holding
pad_biguints(x, y, virt) ==
    IF num_limbs(x) > num_limbs(y)
    THEN <<x, y \o SubSeq(virt, 1, num_limbs(x) - num_limbs(y))>>
    ELSE <<x \o SubSeq(virt, 1, num_limbs(y) - num_limbs(x)), y>>

cmp_biguint(x, y, virt) ==
    LET padded == pad_biguints(x, y, virt) IN list_le(padded[1], padded[2])


\* what an operation of the gadget leaves behind
Result(status, limbs) ==
    [status |-> status, limbs |-> limbs, rem |-> <<>>, le |-> FALSE,
     constraints |-> <<>>, borrow |-> 0]

\* the loop of add_biguint: <<combined_limbs, carry>> after the last limb
RECURSIVE add_loop(_, _, _, _, _)
add_loop(x, y, i, carry, combined_limbs) ==
    IF i >= Len(x) THEN Ok(<<combined_limbs, carry>>)
    ELSE IF i >= Len(y) THEN Panic
    ELSE LET r == add_three_u32(carry, x[i + 1], y[i + 1]) IN
         add_loop(x, y, i + 1, r[2], Append(combined_limbs, r[1]))

add_biguint(x, y, dbg) ==
    LET n == Len(x) IN
    IF dbg /\ Len(y) # n THEN Result("panic", <<>>)
    ELSE LET l == add_loop(x, y, 0, 0, <<>>) IN
         IF l.status = "panic" THEN Result("panic", <<>>)
         ELSE LET set == VecSet(l.val[1], n, l.val[2]) IN
              IF set.status = "panic" THEN Result("panic", <<>>)
              ELSE Result("ok", set.val)

\* the loop of sub_biguint: <<result_limbs, borrow>> after the last limb
RECURSIVE sub_loop(_, _, _, _, _)
sub_loop(x, y, i, borrow, result_limbs) ==
    IF i >= Len(x) THEN Ok(<<result_limbs, borrow>>)
    ELSE IF i >= Len(y) THEN Panic
    ELSE LET r == sub_u32(x[i + 1], y[i + 1], borrow)
             set == VecSet(result_limbs, i, r[1])
         IN IF set.status = "panic" THEN Panic
            ELSE sub_loop(x, y, i + 1, r[2], set.val)

sub_biguint(x, y, dbg) ==
    LET n == Len(x) IN
    IF dbg /\ Len(y) # n THEN Result("panic", <<>>)
    ELSE LET l == sub_loop(x, y, 0, 0, <<>>) IN
         IF l.status = "panic" THEN Result("panic", <<>>)
         ELSE [Result("ok", l.val[1]) EXCEPT !.borrow = l.val[2]]

\* the first loop nest of mul_biguint; p counts the (i, j) pairs done
RECURSIVE mul_products(_, _, _, _)
mul_products(x, y, p, to_add) ==
    IF p >= Len(x) * Len(x) THEN Ok(to_add)
    ELSE LET i == p \div Len(x)
             j == p % Len(x)
         IN IF j >= Len(y) THEN Panic
            ELSE LET m  == mul_u32(x[i + 1], y[j + 1])
                     t1 == [to_add EXCEPT ![i + j + 1] = Append(@, m[1])]
                     t2 == [t1 EXCEPT ![i + j + 2] = Append(@, m[2])]
                 IN mul_products(x, y, p + 1, t2)

\* the second loop of mul_biguint: <<combined_limbs, carry>>
RECURSIVE mul_combine(_, _, _, _)
mul_combine(to_add, i, carry, combined_limbs) ==
    IF i >= Len(to_add) THEN <<combined_limbs, carry>>
    ELSE LET r == add_many_u32(Append(to_add[i + 1], carry)) IN
         mul_combine(to_add, i + 1, r[2], Append(combined_limbs, r[1]))

\* mul_biguint without the final push of the carry
mul_biguint_no_carry_limb(x, y, dbg) ==
    LET n == Len(x) IN
    IF dbg /\ Len(y) # n THEN Result("panic", <<>>)
    ELSE LET t == mul_products(x, y, 0, [k \in 1..(2 * n) |-> <<>>]) IN
         IF t.status = "panic" THEN Result("panic", <<>>)
         ELSE LET c == mul_combine(t.val, 0, 0, <<>>) IN
              Result("ok", c[1])

mul_biguint(x, y, dbg) ==
    LET n == Len(x) IN
    IF dbg /\ Len(y) # n THEN Result("panic", <<>>)
    ELSE LET t == mul_products(x, y, 0, [k \in 1..(2 * n) |-> <<>>]) IN
         IF t.status = "panic" THEN Result("panic", <<>>)
         ELSE LET c == mul_combine(t.val, 0, 0, <<>>) IN
              Result("ok", Append(c[1], c[2]))

\* add_virtual_biguint_target: num_limbs fresh limbs.  A virtual target
\* holds no value during construction; the 0 stands for "no value yet" and
\* is never read as one (the gates wired over it panic, or not, by limb
\* counts alone).
add_virtual_biguint_target(n) == [i \in 1..n |-> 0]

\* the BigUintDivRemGenerator a call registers, and what its run wrote
NoGenerator == [status |-> "none", div |-> <<>>, rem |-> <<>>]
Registered  == [status |-> "registered", div |-> <<>>, rem |-> <<>>]

\* BigUintDivRemGenerator::dependencies: the limbs of a, then those of b
div_rem_dependencies(x, y) ==
       [i \in 1..Len(x) |-> <<"a", i - 1>>]
    \o [j \in 1..Len(y) |-> <<"b", j - 1>>]

\* BigUintDivRemGenerator::run_once: reads a and b, writes div and rem
\* (BigUint::div_rem panics on a zero divisor)
div_rem_run_once(x, y) ==
    IF Decode(y) = 0 THEN [status |-> "panic", div |-> <<>>, rem |-> <<>>]
    ELSE [status |-> "run",
          div |-> Encode(Decode(x) \div Decode(y), Len(x)),
          rem |-> Encode(Decode(x) % Decode(y), Len(x))]

\* div_rem_biguint, the construction: div and rem are allocated and the
\* generator registered before the first call that can panic; the
\* constraints of lines 169-172 are over targets (named, not valued) and
\* are emitted only if mul_biguint and add_biguint both return
div_rem_biguint(x, y, dbg) ==
    LET n     == Len(x)
        div   == add_virtual_biguint_target(n)
        rem   == add_virtual_biguint_target(n)
        div_b == mul_biguint(div, y, dbg)
    IN IF div_b.status = "panic" THEN Result("panic", <<>>)
       ELSE LET div_b_plus_rem == add_biguint(div_b.limbs, rem, dbg) IN
            IF div_b_plus_rem.status = "panic" THEN Result("panic", <<>>)
            ELSE [Result("ok", <<>>) EXCEPT
                    !.constraints =
                        <<[kind |-> "connect_biguint", x |-> "a",
                           y |-> "div_b_plus_rem"],
                          [kind |-> "assert_one", x |-> "cmp_rem_b",
                           y |-> "one"]>>]

-----------------------------------------------------------------------------
(* The gadget's operations as steps of circuit construction: a caller      *)
(* invokes one operation on operands it holds and is left with its result  *)
(* (or with the panic that unwinds the construction).  The result of a     *)
(* call depends on its operands only, so a behaviour makes one call.  A    *)
(* generator registered by a call is run later, as a step of its own.      *)

Operands == SeqsUpTo(LimbValues, MaxLimbs)

\* values the fresh virtual limbs of a padding can hold
Virtuals(x, y) ==
    [1..(Max(Len(x), Len(y)) - Min(Len(x), Len(y))) -> LimbValues]

NoGate == /\ vec_size = 0
          /\ D = 1
          /\ row = <<>>
          /\ evaluation = <<>>
          /\ witness = <<>>

InitBigUint ==
    /\ debug_assertions \in BOOLEAN
    /\ op = "new"
    /\ a = <<>>
    /\ b = <<>>
    /\ fresh = <<>>
    /\ result = Result("ok", <<>>)
    /\ generator = NoGenerator
    /\ NoGate

ConnectBiguint ==
    /\ op = "new"
    /\ \E x \in Operands, y \in Operands :
           /\ op' = "connect_biguint"
           /\ a' = x
           /\ b' = y
           /\ fresh' = <<>>
           /\ result' = [Result("ok", <<>>) EXCEPT
                           !.constraints = connect_biguint(x, y)]
           /\ UNCHANGED <<debug_assertions, generator, gate_state>>

CmpBiguint ==
    /\ op = "new"
    /\ \E x \in Operands, y \in Operands :
         \E virt \in Virtuals(x, y) :
           /\ op' = "cmp_biguint"
           /\ a' = x
           /\ b' = y
           /\ fresh' = virt
           /\ result' = [Result("ok", <<>>) EXCEPT !.le = cmp_biguint(x, y, virt)]
           /\ UNCHANGED <<debug_assertions, generator, gate_state>>

AddBiguint ==
    /\ op = "new"
    /\ \E x \in Operands, y \in Operands :
           /\ op' = "add_biguint"
           /\ a' = x
           /\ b' = y
           /\ fresh' = <<>>
           /\ result' = add_biguint(x, y, debug_assertions)
           /\ UNCHANGED <<debug_assertions, generator, gate_state>>

SubBiguint ==
    /\ op = "new"
    /\ \E x \in Operands, y \in Operands :
           /\ op' = "sub_biguint"
           /\ a' = x
           /\ b' = y
           /\ fresh' = <<>>
           /\ result' = sub_biguint(x, y, debug_assertions)
           /\ UNCHANGED <<debug_assertions, generator, gate_state>>

MulBiguint ==
    /\ op = "new"
    /\ \E x \in Operands, y \in Operands :
           /\ op' = "mul_biguint"
           /\ a' = x
           /\ b' = y
           /\ fresh' = <<>>
           /\ result' = mul_biguint(x, y, debug_assertions)
           /\ UNCHANGED <<debug_assertions, generator, gate_state>>

DivRemBiguint ==
    /\ op = "new"
    /\ \E x \in Operands, y \in Operands :
         LET built == div_rem_biguint(x, y, debug_assertions) IN
         \E virt \in (IF built.status = "ok" THEN Virtuals(x, y) ELSE {<<>>}) :
           /\ op' = "div_rem_biguint"
           /\ a' = x
           /\ b' = y
           /\ fresh' = virt
           /\ result' = built
           /\ generator' = Registered
           /\ UNCHANGED <<debug_assertions, gate_state>>

\* the witness scheduler runs a registered generator once every target of
\* its dependencies holds a value
DivRemRunOnce ==
    /\ generator.status = "registered"
    /\ \A i \in 1..Len(div_rem_dependencies(a, b)) :
           LET t == div_rem_dependencies(a, b)[i] IN
           t[2] < Len(IF t[1] = "a" THEN a ELSE b)
    /\ op' = "div_rem_run_once"
    /\ generator' = div_rem_run_once(a, b)
    /\ UNCHANGED <<debug_assertions, a, b, fresh, result, gate_state>>

NextBigUint ==
    \/ ConnectBiguint
    \/ CmpBiguint
    \/ AddBiguint
    \/ SubBiguint
    \/ MulBiguint
    \/ DivRemBiguint
    \/ DivRemRunOnce

SpecBigUint == InitBigUint /\ [][NextBigUint]_state

-----------------------------------------------------------------------------
(* The base field.  The gate is generic in the field; the model uses the   *)
(* field of order Base^2 - Base + 1 (the shape of 2^64 - 2^32 + 1).        *)

Order == Base * Base - Base + 1

FAdd(x, y) == (x + y) % Order
FSub(x, y) == (x - y) % Order
FMul(x, y) == (x * y) % Order
from_canonical_usize(n) == n % Order

\* a target of the witness store: unassigned, or holding a value
Unassigned == <<>>
Assigned(v) == <<v>>

-----------------------------------------------------------------------------
(* InsertionGate: the wire layout (a half-open range is [start, end)).     *)

Range(lo, hi) == [start |-> lo, end |-> hi]

wires_insertion_index == 0

wires_element_to_insert == Range(1, D + 1)

wires_list_item(i) ==
    LET start == (i + 1) * D + 1 IN Range(start, start + D)

start_of_output_wires == (vec_size + 1) * D + 1

wires_output_list_item(i) ==
    LET start == start_of_output_wires + i * D IN Range(start, start + D)

start_of_intermediate_wires == start_of_output_wires + vec_size * D

intermediate_wires_per_round == 6 * D

\* the source binds no intermediate_index here; the comment in
\* intermediate_wires_per_round lists equality_dummy second (index 1)
equality_dummy_for_round_r(r) ==
    LET intermediate_index == 1
        start == start_of_intermediate_wires
                 + r * intermediate_wires_per_round + D * intermediate_index
    IN Range(start, start + D)

new_item_for_round_r(r) ==
    LET intermediate_index == 2
        start == start_of_intermediate_wires
                 + r * intermediate_wires_per_round + D * intermediate_index
    IN Range(start, start + D)

new_item_plus_old_item_for_round_r(r) ==
    LET intermediate_index == 3
        start == start_of_intermediate_wires
                 + r * intermediate_wires_per_round + D * intermediate_index
    IN Range(start, start + D)

already_inserted_for_round_r(r) ==
    LET intermediate_index == 4
        start == start_of_intermediate_wires
                 + r * intermediate_wires_per_round + D * intermediate_index
    IN Range(start, start + D)

not_already_inserted_for_round_r(r) ==
    LET intermediate_index == 5
        start == start_of_intermediate_wires
                 + r * intermediate_wires_per_round + D * intermediate_index
    IN Range(start, start + D)

\* the three counts are computed and dropped; the value returned is the last line
num_wires ==
    LET num_input_wires == vec_size + 1
        num_output_wires == vec_size + 1
        num_intermediate_wires == 6 * vec_size
    IN vec_size + 1

\* width of a row of the trace: every wire the layout addresses
RowWidth ==
    Max(wires_output_list_item(vec_size).end,
        start_of_intermediate_wires + vec_size * intermediate_wires_per_round)

\* the extension-algebra element on a range of wires; the rows of the model
\* hold base-field elements embedded in the extension (first coordinate)
get_local_ext_algebra(rw, range) == rw[range.start + 1]

-----------------------------------------------------------------------------
(* InsertionGate::eval_unfiltered                                          *)

\* the rounds of the loop; acc collects the constraints and, per round, the
\* locals insert_here and new_item.  The source indexes list_items with an
\* unbound i; the round index r is the only index in scope.
RECURSIVE eval_rounds(_, _, _, _)
eval_rounds(rw, r, already_inserted, acc) ==
    IF r >= vec_size THEN acc
    ELSE LET insertion_index == rw[wires_insertion_index + 1]
             element_to_insert == get_local_ext_algebra(rw, wires_element_to_insert)
             list_items == [i \in 1..vec_size |->
                               get_local_ext_algebra(rw, wires_list_item(i - 1))]
             cur_index == from_canonical_usize(r)
             equality_dummy == get_local_ext_algebra(rw, equality_dummy_for_round_r(r))
             difference == FSub(cur_index, insertion_index)
             insert_here == IF difference = 0 THEN 0 ELSE 1
             c1 == FSub(FMul(difference, equality_dummy), insert_here)
             c2 == FMul(FSub(1, insert_here), difference)
             item0 == FAdd(FMul(insert_here, element_to_insert), already_inserted)
             item1 == IF r > 0
                      THEN FAdd(item0, FMul(already_inserted, list_items[r]))
                      ELSE item0
             inserted == FAdd(already_inserted, insert_here)
             item2 == FAdd(item1, FMul(FSub(1, inserted), list_items[r + 1]))
         IN eval_rounds(rw, r + 1, inserted,
                [constraints |-> acc.constraints \o <<c1, c2>>,
                 insert_here |-> Append(acc.insert_here, insert_here),
                 new_item |-> Append(acc.new_item, item2)])

NoEvaluation == [constraints |-> <<>>, insert_here |-> <<>>, new_item |-> <<>>]

eval_unfiltered(rw) == eval_rounds(rw, 0, 0, NoEvaluation)

-----------------------------------------------------------------------------
(* InsertionGenerator                                                      *)

\* ConstantGate::WIRE_OUTPUT, the wire run_once writes
WIRE_OUTPUT == 0

dependencies == {}

\* the PartialWitness run_once returns: one wire; c is the value of the
\* field `constant`, which the generator's struct does not declare
run_once(c) == [wire |-> WIRE_OUTPUT, value |-> c]

\* the witness store is write-once: a second, different value is fatal
extend_witness(w, gen) ==
    IF w.values[gen.wire + 1] = Unassigned
       \/ w.values[gen.wire + 1] = Assigned(gen.value)
    THEN [values |-> [w.values EXCEPT ![gen.wire + 1] = Assigned(gen.value)],
          status |-> "ok"]
    ELSE [values |-> w.values, status |-> "panic"]

-----------------------------------------------------------------------------
(* The gate's operations.                                                  *)

Elements == 0..MaxElem

\* a row holding K, E, L and the equality dummies on their wires, 0 elsewhere
RowOf(K, E, L, dummies) ==
    [w \in 1..RowWidth |->
        IF w - 1 = wires_insertion_index THEN K
        ELSE IF w - 1 = wires_element_to_insert.start THEN E
        ELSE IF \E i \in 0..(vec_size - 1) : w - 1 = wires_list_item(i).start
             THEN L[(CHOOSE i \in 0..(vec_size - 1) :
                        w - 1 = wires_list_item(i).start) + 1]
        ELSE IF \E r \in 0..(vec_size - 1) :
                    w - 1 = equality_dummy_for_round_r(r).start
             THEN dummies[(CHOOSE r \in 0..(vec_size - 1) :
                        w - 1 = equality_dummy_for_round_r(r).start) + 1]
        ELSE 0]

\* the witness once the gate's inputs are assigned: every coordinate of the
\* input wires is set, every other wire is still unassigned
InputsOf(K, E, L) ==
    [w \in 1..RowWidth |->
        IF w - 1 = wires_insertion_index THEN Assigned(K)
        ELSE IF w - 1 = wires_element_to_insert.start THEN Assigned(E)
        ELSE IF \E i \in 0..(vec_size - 1) : w - 1 = wires_list_item(i).start
             THEN Assigned(L[(CHOOSE i \in 0..(vec_size - 1) :
                        w - 1 = wires_list_item(i).start) + 1])
        ELSE IF w - 1 < start_of_output_wires THEN Assigned(0)
        ELSE Unassigned]

NoBigUint == /\ debug_assertions = FALSE
             /\ a = <<>>
             /\ b = <<>>
             /\ fresh = <<>>
             /\ result = Result("ok", <<>>)
             /\ generator = NoGenerator

InitInsertion ==
    /\ vec_size \in 0..MaxVecSize
    /\ D \in 1..MaxD
    /\ op = "new"
    /\ row = <<>>
    /\ evaluation = NoEvaluation
    /\ witness = [values |-> <<>>, status |-> "ok"]
    /\ NoBigUint

EvalUnfiltered ==
    /\ op = "new"
    /\ \E K \in 0..vec_size, E \in Elements,
          L \in [1..vec_size -> Elements], dummies \in [1..vec_size -> Elements] :
           /\ op' = "eval_unfiltered"
           /\ row' = RowOf(K, E, L, dummies)
           /\ evaluation' = eval_unfiltered(RowOf(K, E, L, dummies))
           /\ UNCHANGED <<vec_size, D, witness, biguint_state>>

SetInputs ==
    /\ op = "new"
    /\ \E K \in 0..vec_size, E \in Elements, L \in [1..vec_size -> Elements] :
           /\ op' = "set_inputs"
           /\ witness' = [values |-> InputsOf(K, E, L), status |-> "ok"]
           /\ UNCHANGED <<vec_size, D, row, evaluation, biguint_state>>

RunOnce ==
    /\ op = "set_inputs"
    /\ \E c \in Elements :
           /\ \A w \in dependencies : witness.values[w + 1] # Unassigned
           /\ op' = "run_once"
           /\ witness' = extend_witness(witness, run_once(c))
           /\ UNCHANGED <<vec_size, D, row, evaluation, biguint_state>>

NextInsertion ==
    \/ EvalUnfiltered
    \/ SetInputs
    \/ RunOnce

SpecInsertion == InitInsertion /\ [][NextInsertion]_state

-----------------------------------------------------------------------------
(* Properties of the InsertionGate, checked under SpecInsertion.           *)

\* the gate's inputs as they stand on the evaluated row
RowK == row[wires_insertion_index + 1]
RowE == get_local_ext_algebra(row, wires_element_to_insert)
RowL == [i \in 1..vec_size |-> get_local_ext_algebra(row, wires_list_item(i - 1))]
RowDummy(r) == get_local_ext_algebra(row, equality_dummy_for_round_r(r))

\* L with E inserted at position K (0-based)
Inserted(L, K, E) ==
    [i \in 1..(Len(L) + 1) |->
        IF i - 1 < K THEN L[i] ELSE IF i - 1 = K THEN E ELSE L[i - 1]]

\* C1: for every list L of vec_size elements, element E and index K in
\* [0, vec_size], the output list the gate's evaluation produces has
\* vec_size + 1 items and is L with E inserted at position K.
C1_OutputIsInsertion ==
    op = "eval_unfiltered" => evaluation.new_item = Inserted(RowL, RowK, RowE)

\* the output and intermediate wires of the row
GeneratedWires == start_of_output_wires..(RowWidth - 1)

\* C7: once K, E and L are assigned, running the gate's generator writes
\* every intermediate and output wire of the row, and eval_unfiltered on the
\* resulting row yields an all-zero constraint vector.
C7_GeneratorSatisfiesConstraints ==
    op = "run_once" =>
        /\ witness.status = "ok"
        /\ \A w \in GeneratedWires : witness.values[w + 1] # Unassigned
        /\ LET cs == eval_unfiltered([w \in 1..RowWidth |-> witness.values[w][1]]).constraints
           IN \A i \in 1..Len(cs) : cs[i] = 0

\* C9: in every round r, insert_here_r is a boolean that is 1 iff r = K, and
\* the round's two constraints are (r - K) * d_r - insert_here_r and
\* (1 - insert_here_r) * (r - K).
C9_InsertHereIffIndex ==
    op = "eval_unfiltered" =>
        \A r \in 0..(vec_size - 1) :
            LET ih == evaluation.insert_here[r + 1]
                diff == FSub(from_canonical_usize(r), RowK)
            IN /\ ih \in {0, 1}
               /\ (ih = 1) <=> (r = RowK)
               /\ evaluation.constraints[2 * r + 1] = FSub(FMul(diff, RowDummy(r)), ih)
               /\ evaluation.constraints[2 * r + 2] = FMul(FSub(1, ih), diff)

\* the wire ranges the gate names
NamedRanges ==
    {Range(wires_insertion_index, wires_insertion_index + 1), wires_element_to_insert}
    \cup {wires_list_item(i) : i \in 0..(vec_size - 1)}
    \cup {wires_output_list_item(i) : i \in 0..vec_size}
    \cup UNION {{equality_dummy_for_round_r(r), new_item_for_round_r(r),
                 new_item_plus_old_item_for_round_r(r),
                 already_inserted_for_round_r(r),
                 not_already_inserted_for_round_r(r)} : r \in 0..(vec_size - 1)}

WiresOf(range) == range.start..(range.end - 1)

\* C10: the gate's named wire ranges are pairwise disjoint, together cover
\* the row exactly, and all lie below num_wires().
C10_LayoutPartitionsRow ==
    /\ \A r1 \in NamedRanges, r2 \in NamedRanges :
           r1 # r2 => WiresOf(r1) \cap WiresOf(r2) = {}
    /\ UNION {WiresOf(rg) : rg \in NamedRanges} = 0..(num_wires - 1)
    /\ \A rg \in NamedRanges : rg.end <= num_wires

-----------------------------------------------------------------------------
(* Properties of the BigUint gadget, checked under SpecBigUint.            *)

\* C2: for A, B > 0 at any limb counts, div_rem_biguint completes and its
\* (div, rem) decode to Q, R with A = Q*B + R, R <= B, Q and R the native
\* quotient and remainder.
C2_DivRemCompletes ==
    (op \in {"div_rem_biguint", "div_rem_run_once"}
        /\ Decode(a) > 0 /\ Decode(b) > 0) =>
        /\ result.status = "ok"
        /\ generator.status = "run" =>
             /\ Decode(a) = Decode(generator.div) * Decode(b) + Decode(generator.rem)
             /\ Decode(generator.rem) <= Decode(b)
             /\ Decode(generator.div) = Decode(a) \div Decode(b)
             /\ Decode(generator.rem) = Decode(a) % Decode(b)

\* C3: for operands of equal limb count n, add_biguint returns n + 1 limbs
\* decoding to A + B, the extra high limb being 0 or 1.
C3_AddReturnsSum ==
    (op = "add_biguint" /\ Len(a) = Len(b)) =>
        /\ result.status = "ok"
        /\ Len(result.limbs) = Len(a) + 1
        /\ Decode(result.limbs) = Decode(a) + Decode(b)
        /\ result.limbs[Len(a) + 1] \in {0, 1}

\* C4 as stated: for operands of equal limb count n, mul_biguint returns
\* exactly 2n limbs decoding to A * B.
C4_MulWidthTwoN ==
    (op = "mul_biguint" /\ Len(a) = Len(b)) =>
        /\ result.status = "ok"
        /\ Decode(result.limbs) = Decode(a) * Decode(b)
        /\ Len(result.limbs) = 2 * Len(a)

\* C4 as amended: for operands of equal limb count n, mul_biguint returns
\* exactly 2n + 1 limbs decoding to A * B; the highest limb is the final
\* carry, which is 0.
C4_MulWidthTwoNPlusOne ==
    (op = "mul_biguint" /\ Len(a) = Len(b)) =>
        /\ result.status = "ok"
        /\ Decode(result.limbs) = Decode(a) * Decode(b)
        /\ Len(result.limbs) = 2 * Len(a) + 1
        /\ result.limbs[2 * Len(a) + 1] = 0

\* a product of two full-width operands whose every limb pair carries
C4_Witness ==
    /\ op = "mul_biguint"
    /\ Len(a) = MaxLimbs
    /\ Len(b) = MaxLimbs
    /\ \A i \in 1..MaxLimbs : a[i] = Base - 1 /\ b[i] = Base - 1
    /\ result.status = "ok"
    /\ Decode(result.limbs) = (Base ^ MaxLimbs - 1) * (Base ^ MaxLimbs - 1)

\* C5: for operands of equal limb count with A >= B, sub_biguint returns
\* limbs decoding to A - B and asserts the final borrow to be zero.
C5_SubAssertsBorrow ==
    (op = "sub_biguint" /\ Len(a) = Len(b) /\ Decode(a) >= Decode(b)) =>
        /\ result.status = "ok"
        /\ Decode(result.limbs) = Decode(a) - Decode(b)
        /\ \E i \in 1..Len(result.constraints) :
               result.constraints[i] = AssertZeroU32(result.borrow)

\* C6: the boolean cmp_biguint returns is true iff decoded(x) <= decoded(y),
\* whatever the limbs pad_biguints appended hold.
C6_CmpIsLessOrEqual ==
    op = "cmp_biguint" => (result.le <=> Decode(a) <= Decode(b))

\* C8: the constraints of connect_biguint(x, y) are satisfied iff
\* decoded(x) = decoded(y); they equate the overlapping low limbs pairwise
\* and assert every excess high limb of the longer operand to be zero.
C8_ConnectIffEqual ==
    op = "connect_biguint" =>
        LET cs == result.constraints
            lo == Min(Len(a), Len(b))
            longer == IF Len(a) > Len(b) THEN a ELSE b
        IN /\ Satisfied(cs) <=> (Decode(a) = Decode(b))
           /\ Len(cs) = Max(Len(a), Len(b))
           /\ \A i \in 1..lo : cs[i] = ConnectU32(a[i], b[i])
           /\ \A i \in (lo + 1)..Len(cs) : cs[i] = AssertZeroU32(longer[i])

\* operands of unequal limb counts and equal nonzero value, connected
C8_Witness ==
    /\ op = "connect_biguint"
    /\ Len(a) < Len(b)
    /\ Decode(a) = Decode(b)
    /\ Decode(a) > 0
    /\ Satisfied(result.constraints)

=============================================================================
